---- MODULE Spec2Model ----
(***************************************************************************)
(* PPO agent of baselines/ppo/agent.py: Actor construction, Agent.learn    *)
(* (statistics, shape assertion, epoch/minibatch loop, counter, aggregated *)
(* diagnostics) and Agent.learn_one_update, statement by statement.        *)
(*                                                                         *)
(* Real numbers are fixed-point integers with two decimals (100 is 1.0);   *)
(* a division rounds towards zero.  Network parameters live on a small     *)
(* grid; an optimizer step moves a parameter one grid point against the    *)
(* sign of its gradient.  Observations carry no features, rewards are 1.0  *)
(* and the action of flattened timestep i is i % 2.                        *)
(***************************************************************************)
EXTENDS Integers, Sequences, FiniteSets, TLC

\* ------------------------------------------------------------------ bounds
MaxTotal == 6
MaxEpochs == 2
MaxSteps == 3

\* ----------------------------------------------------------- arithmetic
Abs(x) == IF x < 0 THEN -x ELSE x

Sign(x) == IF x < 0 THEN -1 ELSE IF x > 0 THEN 1 ELSE 0

Min2(a, b) == IF a <= b THEN a ELSE b

Max2(a, b) == IF a >= b THEN a ELSE b

\* division rounding towards zero, as symmetric as floating point is
Div(a, b) == IF a >= 0 THEN a \div b ELSE -((-a) \div b)

\* product of two fixed-point numbers
Mul(a, b) == Div(a * b, 100)

Clamp(x, lo, hi) == IF x < lo THEN lo ELSE IF x > hi THEN hi ELSE x

RECURSIVE SumSeq(_)
SumSeq(s) == IF s = <<>> THEN 0 ELSE Head(s) + SumSeq(Tail(s))

\* x.mean(0) of a tensor, np.mean of a list
Mean(s) == Div(SumSeq(s), Len(s))

\* torch.exp on the differences of log-probabilities the policy grid produces
Exp(x) ==
  CASE x = 0 -> 100
    [] x = 40 -> 149 [] x = -40 -> 67
    [] x = 70 -> 201 [] x = -70 -> 50
    [] x = 110 -> 300 [] x = -110 -> 33
    [] x = 50 -> 165 [] x = -50 -> 61
    [] x = 100 -> 272 [] x = -100 -> 37
    [] x = 150 -> 448 [] x = -150 -> 22
    [] x = 200 -> 739 [] x = -200 -> 14
    [] x = 250 -> 1218 [] x = -250 -> 8
    [] x = 400 -> 5460 [] x = -400 -> 2
    [] OTHER -> IF x > 0 THEN 5460 ELSE 2

\* the indices of a set in ascending order
RECURSIVE SetToSeq(_)
SetToSeq(S) ==
  IF S = {} THEN <<>>
  ELSE LET m == CHOOSE x \in S : \A y \in S : x <= y
       IN <<m>> \o SetToSeq(S \ {m})

\* ------------------------------------------------------------ tensor shapes
\* torch.cat along dimension 0 of n tensors of shape <<1>> \o tail
CatShape(n, tail) == <<n>> \o tail

\* Tensor.squeeze(): every dimension of size 1 is removed
Squeeze(shape) == SelectSeq(shape, LAMBDA d : d # 1)

NDim(shape) == Len(shape)

\* ------------------------------------------------------------ configuration
\* config['agent.gamma'], config['agent.gae_lambda'], config['agent.max_grad_norm']
Gamma == 100

GaeLambda == 100

MaxGradNorm == 50

\* the grid the policy and value parameters live on
PolicyGrid == -1 .. 1

ValueGrid == -1 .. 2

ActionSpaces == {"Discrete", "Box", "Other"}

\* agent.clip_range values, 0.0 and 0.2
ClipRanges == {0, 20}

\* the configurations explored: every action space, epoch count, batch size and
\* scheduler setting; clip range 0.2 for Discrete and Other, 0.0 for Box; batch
\* size 1 with at most one epoch; agent.standardize_adv is off (lines 172-173
\* are not taken)
Configs ==
  { c \in [ action_space : ActionSpaces,
            num_epochs : 0 .. MaxEpochs,
            batch_size : 1 .. MaxSteps,
            use_lr_scheduler : BOOLEAN,
            clip_range : ClipRanges ] :
      /\ c.clip_range = IF c.action_space = "Box" THEN 0 ELSE 20
      /\ c.batch_size = 1 => c.num_epochs <= 1 }

\* ------------------------------------------------------------------ networks
\* CategoricalHead over 2 actions: probability (percent) of action 1
ProbOne(theta) == CASE theta = -1 -> 25 [] theta = 0 -> 50 [] OTHER -> 75

\* natural logarithm of a probability given in percent
Ln(p) == CASE p = 25 -> -139 [] p = 50 -> -69 [] OTHER -> -29

\* action_dist.log_prob(action) of the distribution Actor.forward returns
LogProb(head, theta, a) ==
  IF head = "Categorical"
  THEN Ln(IF a = 1 THEN ProbOne(theta) ELSE 100 - ProbOne(theta))
  ELSE -92 - 50 * (a - theta) * (a - theta)

\* action_dist.entropy()
Entropy(head, theta) ==
  IF head = "Categorical"
  THEN (IF theta = 0 THEN 69 ELSE 56)
  ELSE 142

\* derivative of LogProb in theta
DLogProb(head, theta, a) ==
  IF head = "Categorical"
  THEN (IF a = 1 THEN 100 - ProbOne(theta) ELSE -ProbOne(theta))
  ELSE 100 * (a - theta)

\* Critic.forward: the value estimate, the same for every observation
Value(theta) == 100 * theta

\* linear_lr_scheduler(optimizer, config['train.timestep'], min_lr): base rate
\* 1.0, train.timestep = 10
LinearLr(n) == Max2(1, 100 - Div(100 * n, 10))

\* ---------------------------------------------------------------- estimators
\* bootstrapped_returns(gamma, traj, last_V) of a trajectory of T rewards 1.0,
\* seeded with 0 after a terminal state and with last_V after a truncation
RECURSIVE Returns(_, _)
Returns(T, seed) ==
  IF T = 0 THEN <<>>
  ELSE LET rest == Returns(T - 1, seed)
           nxt == IF rest = <<>> THEN seed ELSE Head(rest)
       IN <<100 + Mul(Gamma, nxt)>> \o rest

\* gae(gamma, lambda, traj, Vs, last_V) with the cached values all equal to v
RECURSIVE Gae(_, _, _)
Gae(T, v, seed) ==
  IF T = 0 THEN <<>>
  ELSE LET rest == Gae(T - 1, v, seed)
           vnext == IF T = 1 THEN seed ELSE v
           delta == 100 + Mul(Gamma, vnext) - v
           anext == IF rest = <<>> THEN 0 ELSE Head(rest)
       IN <<delta + Mul(Mul(Gamma, GaeLambda), anext)>> \o rest

RECURSIVE Flatten(_)
Flatten(ss) == IF ss = <<>> THEN <<>> ELSE Head(ss) \o Flatten(Tail(ss))

\* explained_variance(y_true, y_pred): 1 - Var(y_true - y_pred) / Var(y_true)
Variance(s) == LET m == Mean(s) IN Mean([k \in 1 .. Len(s) |-> Mul(s[k] - m, s[k] - m)])

ExplainedVariance(yTrue, yPred) ==
  LET res == [k \in 1 .. Len(yTrue) |-> yTrue[k] - yPred[k]]
  IN IF Variance(yTrue) = 0
     THEN (IF Variance(res) = 0 THEN 100 ELSE 0)
     ELSE 100 - Div(100 * Variance(res), Variance(yTrue))

\* ------------------------------------------------------------------- inputs
\* lengths of the trajectories of a batch D: one trajectory, or a one-step
\* trajectory followed by another; MaxSteps timesteps in all
LenSeqs ==
  {<<n>> : n \in 1 .. MaxSteps} \cup {<<1, n>> : n \in 1 .. MaxSteps - 1}

\* trailing dimensions of the per-step cached tensors (after the leading 1) and
\* of the per-trajectory arrays the estimators return (after the length)
StandardShapes == [logprob |-> <<>>, entropy |-> <<>>, V |-> <<1>>, Q |-> <<>>, A |-> <<>>]

OddShapes ==
  { [StandardShapes EXCEPT !.logprob = <<2>>],
    [StandardShapes EXCEPT !.entropy = <<1, 2>>],
    [StandardShapes EXCEPT !.V = <<2>>],
    [StandardShapes EXCEPT !.Q = <<1>>],
    [StandardShapes EXCEPT !.A = <<2>>] }

\* a batch: trajectory lengths, whether the last trajectory ended in a terminal
\* state (the earlier ones did), and the shapes of its tensors.  A last
\* trajectory of one step ended in a terminal state, a longer one was cut off.
Batches ==
  { [lens |-> ls, lastDone |-> (ls[Len(ls)] = 1), tails |-> tl] :
      ls \in LenSeqs, tl \in {StandardShapes} \cup OddShapes }

NumSteps(b) == SumSeq(b.lens)

\* ------------------------------------------------------- Actor.__init__
\* the action head the constructor leaves on the Actor for an action space
ActionHeadFor(space) ==
  IF space = "Discrete" THEN "Categorical"
  ELSE IF space = "Box" THEN "DiagGaussian"
  ELSE "unset"

\* ------------------------------------------------------------ Agent.learn
\* shapes of logprobs, entropies, Vs (concatenated, then squeezed) and of Qs, As
\* (concatenated only)
FlatShapes(b) ==
  [ logprob |-> Squeeze(CatShape(NumSteps(b), b.tails.logprob)),
    entropy |-> Squeeze(CatShape(NumSteps(b), b.tails.entropy)),
    V |-> Squeeze(CatShape(NumSteps(b), b.tails.V)),
    Q |-> CatShape(NumSteps(b), b.tails.Q),
    A |-> CatShape(NumSteps(b), b.tails.A) ]

\* variant: the assertion covers the cached statistics only
ShapesAcceptedStatsOnly(b) ==
  \A q \in {"logprob", "entropy", "V"} : NDim(FlatShapes(b)[q]) = 1

\* assert all([x.ndimension() == 1 for x in [logprobs, entropies, Vs, Qs, As]])
ShapesAccepted(b) == \A q \in DOMAIN FlatShapes(b) : NDim(FlatShapes(b)[q]) = 1

\* whether trajectory j of the batch ended in a terminal state
TrajDone(b, j) == j < Len(b.lens) \/ b.lastDone

\* the flattened per-timestep table: cached statistics of the behaviour policy,
\* returns and advantages, in trajectory order then time order
MakeData(b, head, ptheta, vtheta) ==
  LET v == Value(vtheta)
      lastV == Value(vtheta)
      seed(j) == IF TrajDone(b, j) THEN 0 ELSE lastV
      Qs == Flatten([j \in 1 .. Len(b.lens) |-> Returns(b.lens[j], seed(j))])
      As == Flatten([j \in 1 .. Len(b.lens) |-> Gae(b.lens[j], v, seed(j))])
  IN [ i \in 1 .. NumSteps(b) |->
        [ action |-> i % 2,
          logprob |-> LogProb(head, ptheta, i % 2),
          entropy |-> Entropy(head, ptheta),
          V |-> v,
          Q |-> Qs[i],
          A |-> As[i] ] ]

\* iter(dataloader): a fresh shuffled pass over all N timesteps
FreshIterator(n) == 1 .. n

\* size of the next minibatch of a DataLoader that does not drop the last one
BatchLen(bs, left) == Min2(bs, left)

\* variant: the loop runs one epoch short
EpochsOneShort(cfg) == cfg.num_epochs - 1

\* range(config['train.num_epochs'])
EpochsToRun(cfg) == cfg.num_epochs

\* variant: the counter advances by the number of trajectories
CounterCountsTrajectories(tt, b) == tt + Len(b.lens)

\* self.total_timestep += sum([len(traj) for traj in D])
CounterAfterLearn(tt, b) == tt + NumSteps(b)

EightKeys ==
  { "policy_grad_norm", "value_grad_norm", "policy_loss", "policy_entropy",
    "value_loss", "explained_variance", "approx_kl", "clip_frac" }

\* np.mean([item[key] for item in logs])
MeanOf(ls, key) == Mean([k \in 1 .. Len(ls) |-> ls[k][key]])

\* variant: current_lr is reported whether or not a scheduler exists
LearnOutAlwaysLr(cfg, lr, ls) ==
  [ key \in EightKeys \cup {"current_lr"} |->
      IF key = "current_lr" THEN lr ELSE MeanOf(ls, key) ]

\* the mapping learn returns
LearnOut(cfg, lr, ls) ==
  IF cfg.use_lr_scheduler
  THEN [ key \in EightKeys \cup {"current_lr"} |->
           IF key = "current_lr" THEN lr ELSE MeanOf(ls, key) ]
  ELSE [ key \in EightKeys |-> MeanOf(ls, key) ]

\* ------------------------------------------------- Agent.learn_one_update
\* variant: the update writes the statistics of the updated networks back
DataRefreshed(ds, batchIdx, head, ptheta, vtheta) ==
  [ i \in 1 .. Len(ds) |->
      IF i \in batchIdx
      THEN [ds[i] EXCEPT !.logprob = LogProb(head, ptheta, ds[i].action),
                         !.V = Value(vtheta)]
      ELSE ds[i] ]

\* data = [d.detach().to(self.device) for d in data]: the names are rebound to
\* detached copies and the dataset is left as it is
DataAfterUpdate(ds, batchIdx, head, ptheta, vtheta) == ds

Ratio(new, old) == Exp(new - old)

\* variant: the surrogate is not negated
SurrogateNotNegated(r, adv, eps) ==
  Min2(Mul(r, adv), Mul(Clamp(r, 100 - eps, 100 + eps), adv))

Surrogate(r, adv, eps) ==
  -Min2(Mul(r, adv), Mul(Clamp(r, 100 - eps, 100 + eps), adv))

PolicyLoss(items, ratios, eps) ==
  Mean([k \in 1 .. Len(items) |-> Surrogate(ratios[k], items[k].A, eps)])

\* policy_loss.backward(): the gradient in the policy parameter; a sample whose
\* clipped term is the smaller one contributes nothing
PolicyGradient(head, theta, items, ratios, eps) ==
  Mean([k \in 1 .. Len(items) |->
    IF Mul(ratios[k], items[k].A)
         <= Mul(Clamp(ratios[k], 100 - eps, 100 + eps), items[k].A)
    THEN -Mul(Mul(items[k].A, ratios[k]), DLogProb(head, theta, items[k].action))
    ELSE 0])

\* clip_grad_norm_: returns the norm before clipping, rescales the gradient
GradNorm(g) == Abs(g)

ClipGrad(g) == IF Abs(g) > MaxGradNorm THEN Div(g * MaxGradNorm, Abs(g)) ELSE g

\* variant: the scheduler is keyed by a counter that already holds this batch
SchedulerStepArgWithBatch(tt, b, done) == tt + NumSteps(b)

\* the argument of self.policy_lr_scheduler.step(...)
SchedulerStepArg(tt, b, done) == tt

\* optimizer.step(): one grid point against the gradient
OptimizerStep(theta, g, grid) ==
  Clamp(theta - Sign(g), CHOOSE x \in grid : \A y \in grid : x <= y,
        CHOOSE x \in grid : \A y \in grid : x >= y)

ClippedV(v, oldV, eps) == oldV + Clamp(v - oldV, -eps, eps)

SqErr(x, y) == Mul(x - y, x - y)

ValueLoss(v, items, eps) ==
  Mean([k \in 1 .. Len(items) |->
    Max2(SqErr(v, items[k].Q), SqErr(ClippedV(v, items[k].V, eps), items[k].Q))])

\* value_loss.backward(): the gradient in the value parameter
ValueGradient(v, items, eps) ==
  Mean([k \in 1 .. Len(items) |->
    IF SqErr(v, items[k].Q) >= SqErr(ClippedV(v, items[k].V, eps), items[k].Q)
    THEN 2 * (v - items[k].Q)
    ELSE IF Abs(v - items[k].V) <= eps
         THEN 2 * (ClippedV(v, items[k].V, eps) - items[k].Q)
         ELSE 0])

ApproxKl(items, logprobs) ==
  Mean([k \in 1 .. Len(items) |-> items[k].logprob - logprobs[k]])

ClipFrac(ratios, eps) ==
  Mean([k \in 1 .. Len(ratios) |->
    IF ratios[k] < 100 - eps \/ ratios[k] > 100 + eps THEN 100 ELSE 0])

\* lines 116-125: choose_action on the minibatch, ratio, policy loss; the
\* parameters the graph was built from are kept for the backward passes
ForwardPass(head, ptheta, vtheta, items, eps) ==
  LET lp == [k \in 1 .. Len(items) |-> LogProb(head, ptheta, items[k].action)]
      rs == [k \in 1 .. Len(items) |-> Ratio(lp[k], items[k].logprob)]
  IN [ logprobs |-> lp,
       ratios |-> rs,
       entropy |-> Entropy(head, ptheta),
       Vs |-> Value(vtheta),
       policy_loss |-> PolicyLoss(items, rs, eps),
       ptheta |-> ptheta,
       vtheta |-> vtheta ]

\* variant: the scheduler is stepped whatever agent.use_lr_scheduler says
UpdateStepsAlwaysSched(cfg) ==
  <<"policy_zero_grad", "policy_backward", "policy_clip", "policy_sched_step",
    "policy_step", "value_loss", "value_zero_grad", "value_backward", "value_clip",
    "value_step">>

\* lines 127-142 in program order; the scheduler step only with the scheduler on
UpdateSteps(cfg) ==
  <<"policy_zero_grad", "policy_backward", "policy_clip">>
    \o (IF cfg.use_lr_scheduler THEN <<"policy_sched_step">> ELSE <<>>)
    \o <<"policy_step", "value_loss", "value_zero_grad", "value_backward",
         "value_clip", "value_step">>

\* the effect of one statement on the agent and the locals:
\* st = [ptheta, vtheta, pgrad, vgrad, lr, pnorm, vnorm, value_loss, trace, sched]
ApplyStep(step, st, fw, ctx) ==
  LET t == [st EXCEPT !.trace = Append(@, step)]
  IN CASE step = "policy_zero_grad" -> [t EXCEPT !.pgrad = 0]
       [] step = "policy_backward" ->
            [t EXCEPT !.pgrad = @ + PolicyGradient(ctx.head, fw.ptheta, ctx.items,
                                                   fw.ratios, ctx.cfg.clip_range)]
       [] step = "policy_clip" ->
            [t EXCEPT !.pnorm = GradNorm(st.pgrad), !.pgrad = ClipGrad(@)]
       [] step = "policy_sched_step" ->
            [t EXCEPT !.lr = LinearLr(SchedulerStepArg(ctx.tt, ctx.batch, ctx.done)),
                      !.sched = Append(@, SchedulerStepArg(ctx.tt, ctx.batch, ctx.done))]
       [] step = "policy_step" ->
            [t EXCEPT !.ptheta = OptimizerStep(@, st.pgrad, PolicyGrid)]
       [] step = "value_loss" ->
            [t EXCEPT !.value_loss = ValueLoss(fw.Vs, ctx.items, ctx.cfg.clip_range)]
       [] step = "value_zero_grad" -> [t EXCEPT !.vgrad = 0]
       [] step = "value_backward" ->
            [t EXCEPT !.vgrad = @ + ValueGradient(fw.Vs, ctx.items, ctx.cfg.clip_range)]
       [] step = "value_clip" ->
            [t EXCEPT !.vnorm = GradNorm(st.vgrad), !.vgrad = ClipGrad(@)]
       [] step = "value_step" ->
            [t EXCEPT !.vtheta = OptimizerStep(@, st.vgrad, ValueGrid)]

RECURSIVE RunSteps(_, _, _, _)
RunSteps(steps, st, fw, ctx) ==
  IF steps = <<>> THEN st
  ELSE RunSteps(Tail(steps), ApplyStep(Head(steps), st, fw, ctx), fw, ctx)

\* lines 144-153: the mapping learn_one_update returns
UpdateOut(st, fw, items, eps) ==
  [ policy_grad_norm |-> st.pnorm,
    value_grad_norm |-> st.vnorm,
    policy_loss |-> fw.policy_loss,
    policy_entropy |-> fw.entropy,
    value_loss |-> st.value_loss,
    explained_variance |->
      ExplainedVariance([k \in 1 .. Len(items) |-> items[k].Q],
                        [k \in 1 .. Len(items) |-> fw.Vs]),
    approx_kl |-> ApproxKl(items, fw.logprobs),
    clip_frac |-> ClipFrac(fw.ratios, eps) ]

\* -------------------------------------------------------------------- state
VARIABLES
  config,          \* the configuration the agent is built with
  pc,              \* "new", "idle", "epoch" (loop head), "batch" (inside an epoch)
                   \* or "returned" (learn has returned or raised to its caller)
  action_head,     \* Actor.action_head
  policy_theta,    \* parameters of self.policy
  value_theta,     \* parameters of self.value
  policy_grad,     \* .grad of the policy parameters
  value_grad,      \* .grad of the value parameters
  policy_lr,       \* learning rate of policy_optimizer
  total_timestep,  \* Agent.total_timestep
  batch,           \* D of the learn call in progress (or of the last one)
  data,            \* dataset: the flattened per-timestep table
  epoch,           \* loop variable of learn
  remaining,       \* timesteps the dataloader iterator has not yielded yet
  cur,             \* the list the comprehension is building
  logs,            \* learn's variable logs; <<>> while unbound
  out,             \* the mapping the last completed learn returned
  result,          \* how the last call ended
  doneSum,         \* history: timesteps of the learn calls that returned
  allLogs,         \* history: one record for every learn_one_update of this call
  schedArgs,       \* history: every scheduler step: its argument, doneSum then
  snap             \* history: the dataset as built at the start of the call, and
                   \* the parameters in force then; <<>> outside a call

vars ==
  << config, pc, action_head, policy_theta, value_theta, policy_grad, value_grad,
     policy_lr, total_timestep, batch, data, epoch, remaining, cur, logs, out,
     result, doneSum, allLogs, schedArgs, snap >>

agentVars == << action_head, policy_theta, value_theta, policy_grad, value_grad, policy_lr >>

histVars == << doneSum, allLogs, schedArgs, snap >>

NoBatch == [lens |-> <<>>, lastDone |-> TRUE, tails |-> <<>>]

\* the rows of the dataset a minibatch holds, in ascending order
ItemsOf(ds, m) == [k \in 1 .. Cardinality(m) |-> ds[SetToSeq(m)[k]]]

Init ==
  /\ config \in Configs
  /\ pc = "new"
  /\ action_head = "unset"
  /\ policy_theta = 0
  /\ value_theta = 0
  /\ policy_grad = 0
  /\ value_grad = 0
  /\ policy_lr = 100
  /\ total_timestep = 0
  /\ batch = NoBatch
  /\ data = <<>>
  /\ epoch = 0
  /\ remaining = {}
  /\ cur = <<>>
  /\ logs = <<>>
  /\ out = <<>>
  /\ result = "none"
  /\ doneSum = 0
  /\ allLogs = <<>>
  /\ schedArgs = {}
  /\ snap = <<>>

\* Agent.__init__: Actor and Critic are built, the counter starts at 0
AgentInit ==
  /\ pc = "new"
  /\ action_head' = ActionHeadFor(config.action_space)
  /\ policy_theta' = 0
  /\ value_theta' = 0
  /\ total_timestep' = 0
  /\ policy_lr' = 100
  /\ pc' = "idle"
  /\ UNCHANGED << config, policy_grad, value_grad, batch, data, epoch, remaining,
                  cur, logs, out, result >>
  /\ UNCHANGED histVars

\* Agent.choose_action, called by the rollout between learn calls: forward
\* passes only, no effect on the agent unless the Actor has no action head
ChooseAction ==
  /\ pc = "idle"
  /\ result' = IF action_head = "unset" THEN "AttributeError" ELSE result
  /\ UNCHANGED << config, pc, total_timestep, batch, data, epoch, remaining, cur,
                  logs, out >>
  /\ UNCHANGED agentVars
  /\ UNCHANGED histVars

\* Agent.learn up to the epoch loop: statistics, shape assertion, dataset
LearnBegin(b) ==
  /\ pc = "idle"
  /\ total_timestep + NumSteps(b) <= MaxTotal
  /\ batch' = b
  /\ allLogs' = <<>>
  /\ out' = <<>>
  /\ IF ShapesAccepted(b)
     THEN /\ data' = MakeData(b, IF action_head = "unset" THEN "Categorical" ELSE action_head,
                              policy_theta, value_theta)
          /\ snap' = [data |-> data', ptheta |-> policy_theta, vtheta |-> value_theta]
          /\ pc' = "epoch"
          /\ result' = "running"
     ELSE /\ result' = "AssertionError"
          /\ pc' = "returned"
          /\ snap' = <<>>
          /\ UNCHANGED data
  /\ epoch' = 0
  /\ logs' = <<>>
  /\ UNCHANGED << config, total_timestep, remaining, cur, doneSum, schedArgs >>
  /\ UNCHANGED agentVars

\* for epoch in range(num_epochs): the dataloader is iterated afresh
EpochBegin ==
  /\ pc = "epoch"
  /\ epoch < EpochsToRun(config)
  /\ remaining' = FreshIterator(Len(data))
  /\ cur' = <<>>
  /\ pc' = "batch"
  /\ UNCHANGED << config, total_timestep, batch, data, epoch, logs, out, result >>
  /\ UNCHANGED agentVars
  /\ UNCHANGED histVars

\* the dataloader yields the shuffled minibatch m and learn_one_update runs on
\* it; an Actor without an action head fails in its forward pass
LearnOneUpdate(m) ==
  /\ pc = "batch"
  /\ m \subseteq remaining
  /\ m # {}
  /\ Cardinality(m) = BatchLen(config.batch_size, Cardinality(remaining))
  /\ IF action_head = "unset"
     THEN /\ result' = "AttributeError"
          /\ pc' = "returned"
          /\ data' = <<>>
          /\ remaining' = {}
          /\ cur' = <<>>
          /\ UNCHANGED << policy_theta, value_theta, policy_grad, value_grad, policy_lr,
                          allLogs, schedArgs >>
     ELSE LET items == ItemsOf(data, m)
              fw == ForwardPass(action_head, policy_theta, value_theta, items,
                                config.clip_range)
              ctx == [ cfg |-> config, head |-> action_head, items |-> items,
                       tt |-> total_timestep, batch |-> batch, done |-> Len(allLogs) ]
              st0 == [ ptheta |-> policy_theta, vtheta |-> value_theta,
                       pgrad |-> policy_grad, vgrad |-> value_grad, lr |-> policy_lr,
                       pnorm |-> 0, vnorm |-> 0, value_loss |-> 0,
                       trace |-> <<>>, sched |-> <<>> ]
              st == RunSteps(UpdateSteps(config), st0, fw, ctx)
              ret == UpdateOut(st, fw, items, config.clip_range)
          IN /\ policy_theta' = st.ptheta
             /\ value_theta' = st.vtheta
             /\ policy_grad' = st.pgrad
             /\ value_grad' = st.vgrad
             /\ policy_lr' = st.lr
             /\ cur' = Append(cur, ret)
             /\ data' = DataAfterUpdate(data, m, action_head, st.ptheta, st.vtheta)
             /\ remaining' = remaining \ m
             /\ allLogs' = Append(allLogs,
                  [ ret |-> ret, mb |-> m, epoch |-> epoch, seen |-> items,
                    ratios |-> fw.ratios, ops |-> st.trace,
                    ptheta |-> fw.ptheta, vtheta |-> fw.vtheta,
                    pgradUsed |-> st.pgrad, vgradUsed |-> st.vgrad ])
             /\ schedArgs' = schedArgs \cup
                  { [arg |-> st.sched[k], done |-> doneSum] :
                      k \in 1 .. Len(st.sched) }
             /\ UNCHANGED << pc, result >>
  /\ UNCHANGED << config, action_head, total_timestep, batch, epoch, logs, out,
                  doneSum, snap >>

\* the dataloader is exhausted: the comprehension's list is bound to logs
EpochEnd ==
  /\ pc = "batch"
  /\ remaining = {}
  /\ logs' = cur
  /\ cur' = <<>>
  /\ epoch' = epoch + 1
  /\ pc' = "epoch"
  /\ UNCHANGED << config, total_timestep, batch, data, remaining, out, result >>
  /\ UNCHANGED agentVars
  /\ UNCHANGED histVars

\* after the loop: the counter advances, the diagnostics are averaged; with no
\* epoch run, logs is unbound and the first np.mean line raises NameError
LearnEnd ==
  /\ pc = "epoch"
  /\ epoch >= EpochsToRun(config)
  /\ total_timestep' = CounterAfterLearn(total_timestep, batch)
  /\ IF logs = <<>>
     THEN /\ result' = "NameError"
          /\ UNCHANGED << out, doneSum >>
     ELSE /\ result' = "ok"
          /\ out' = LearnOut(config, policy_lr, logs)
          /\ doneSum' = doneSum + NumSteps(batch)
  /\ pc' = "returned"
  /\ data' = <<>>
  /\ logs' = <<>>
  /\ epoch' = 0
  /\ UNCHANGED << config, batch, remaining, cur, allLogs, schedArgs, snap >>
  /\ UNCHANGED agentVars

\* the caller has taken learn's result (or exception); the call's objects are gone
LearnReturn ==
  /\ pc = "returned"
  /\ pc' = "idle"
  /\ batch' = NoBatch
  /\ out' = <<>>
  /\ result' = "none"
  /\ allLogs' = <<>>
  /\ snap' = <<>>
  /\ UNCHANGED << config, total_timestep, data, epoch, remaining, cur, logs,
                  doneSum, schedArgs >>
  /\ UNCHANGED agentVars

Next ==
  \/ AgentInit
  \/ ChooseAction
  \/ \E b \in Batches : LearnBegin(b)
  \/ EpochBegin
  \/ \E m \in SUBSET (1 .. MaxSteps) : LearnOneUpdate(m)
  \/ EpochEnd
  \/ LearnEnd
  \/ LearnReturn

Spec == Init /\ [][Next]_vars

\* ------------------------------------------------------------------- claims
Returned == pc = "returned"

Completed == pc = "returned" /\ result = "ok"

\* C1: after any sequence of completed learn calls total_timestep is the sum of
\* their batch lengths, whatever batch_size and num_epochs are, and it does not
\* move while the minibatch updates of a call run.  (With num_epochs = 0 no call
\* completes: line 186 raises NameError.)
C1_TotalTimestepIsRunningSum ==
  config.num_epochs >= 1 => total_timestep = doneSum

\* a second completed call, after several minibatch updates
C1_Witness ==
  /\ Completed
  /\ Len(allLogs) >= 2
  /\ doneSum > NumSteps(batch)
  /\ total_timestep = doneSum

\* C2: every diagnostic scalar learn returns is the mean of that scalar over
\* every learn_one_update invocation of the call (all minibatches of all epochs)
C2_MeanOverEveryUpdate ==
  Completed =>
    \A key \in EightKeys :
      out[key] = Mean([k \in 1 .. Len(allLogs) |-> allLogs[k].ret[key]])

\* the end-to-end scenario: Discrete actions, one well-formed trajectory, one epoch,
\* batch size equal to the trajectory length
C3_Scenario ==
  /\ config.action_space = "Discrete"
  /\ config.num_epochs = 1
  /\ batch.lens # <<>>
  /\ Len(batch.lens) = 1
  /\ batch.tails = StandardShapes
  /\ config.batch_size = NumSteps(batch)

HasStep(name) ==
  \E k \in 1 .. Len(allLogs) : \E j \in 1 .. Len(allLogs[k].ops) : allLogs[k].ops[j] = name

C4_NoActorWithoutHead ==
  pc # "new" => action_head # "unset"

\* a quantity as handed over: the concatenation before any squeeze
C5_RawShape(b, q) == <<NumSteps(b)>> \o b.tails[q]

\* one-dimensional once the size-1 dimensions of the cached statistics are dropped
C5_Reducible(b) ==
  /\ \A q \in {"logprob", "entropy", "V"} :
       Cardinality({k \in 1 .. Len(C5_RawShape(b, q)) : C5_RawShape(b, q)[k] # 1}) = 1
  /\ \A q \in {"Q", "A"} : Len(C5_RawShape(b, q)) = 1

\* C5 as stated: a batch with a quantity that arrives with more than one
\* dimension is rejected, never squeezed into an accepted tensor
C5_NeverSqueezed ==
  (pc \in {"epoch", "batch", "returned"}
     /\ \E q \in {"logprob", "entropy", "V", "Q", "A"} : Len(C5_RawShape(batch, q)) # 1)
    => result = "AssertionError"

\* C5 amended: a learn call whose statistics are not one-dimensional after the
\* squeeze of logprobs, entropies and values (Q and A are not squeezed) raises
\* AssertionError before any update: no optimizer or scheduler step, parameters
\* and total_timestep unchanged; every other batch enters the epoch loop
C5_RejectsWhatSqueezeCannotReduce ==
  [][(pc = "idle" /\ pc' # "idle") =>
       IF C5_Reducible(batch')
       THEN pc' = "epoch" /\ result' = "running"
       ELSE /\ pc' = "returned"
            /\ result' = "AssertionError"
            /\ allLogs' = <<>>
            /\ UNCHANGED << agentVars, total_timestep, schedArgs >>]_vars

\* a batch whose values have two columns was rejected, with nothing run
C5_Witness ==
  /\ Returned
  /\ result = "AssertionError"
  /\ batch.tails.V = <<2>>
  /\ NumSteps(batch) >= 2
  /\ allLogs = <<>>

\* C6: an update evaluated with the policy parameters that produced the old
\* log-probabilities has ratio 1 at every timestep, policy loss -mean(A),
\* approx_kl 0 and clip_frac 0, for either clip range
C6_SameParametersRatioOne ==
  \A k \in 1 .. Len(allLogs) :
    allLogs[k].ptheta = snap.ptheta =>
      /\ \A j \in 1 .. Len(allLogs[k].ratios) : allLogs[k].ratios[j] = 100
      /\ allLogs[k].ret.policy_loss
           = -Mean([j \in 1 .. Len(allLogs[k].seen) |-> allLogs[k].seen[j].A])
      /\ allLogs[k].ret.approx_kl = 0
      /\ allLogs[k].ret.clip_frac = 0

\* a first update on a minibatch whose advantages do not cancel
C6_Witness ==
  /\ allLogs # <<>>
  /\ allLogs[1].ptheta = snap.ptheta
  /\ allLogs[1].ret.policy_loss # 0
  /\ Len(allLogs[1].seen) >= 2

C7_Ceil(n, d) == (n + d - 1) \div d

\* the minibatches of epoch e that hold timestep i
C7_Holders(e, i) == {k \in 1 .. Len(allLogs) : allLogs[k].epoch = e /\ i \in allLogs[k].mb}

\* C7: a learn call that returns has invoked learn_one_update once per minibatch
\* in each of num_epochs epochs, num_epochs * ceil(N / batch_size) times in all,
\* and in every epoch each timestep was in exactly one minibatch; while the call
\* runs no timestep is in two minibatches of one epoch
C7_OncePerMinibatchPerEpoch ==
  /\ Completed =>
       /\ Len(allLogs) = config.num_epochs * C7_Ceil(NumSteps(batch), config.batch_size)
       /\ \A e \in 0 .. config.num_epochs - 1 : \A i \in 1 .. NumSteps(batch) :
            Cardinality(C7_Holders(e, i)) = 1
  /\ pc \in {"epoch", "batch"} =>
       /\ \A e \in 0 .. MaxEpochs : \A i \in 1 .. Len(data) :
            Cardinality(C7_Holders(e, i)) <= 1
       /\ \A k \in 1 .. Len(allLogs) : allLogs[k].epoch < config.num_epochs

\* two epochs of two minibatches each, the second minibatch a partial one
C7_Witness ==
  /\ Completed
  /\ config.num_epochs = 2
  /\ config.batch_size = 2
  /\ NumSteps(batch) = 3
  /\ Len(allLogs) = 4

C8_Order(sched) ==
  <<"policy_zero_grad", "policy_backward", "policy_clip">>
    \o (IF sched THEN <<"policy_sched_step">> ELSE <<>>)
    \o <<"policy_step", "value_zero_grad", "value_backward", "value_clip", "value_step">>

\* C8: every learn_one_update runs zero policy gradients, policy backward,
\* policy clip, (scheduler step, only if enabled), policy step, zero value
\* gradients, value backward, value clip, value step, in this order; each
\* optimizer steps on the clipped gradient of this minibatch alone; with the
\* scheduler disabled no scheduler step is ever made
C8_StepOrder ==
  /\ \A k \in 1 .. Len(allLogs) :
       /\ SelectSeq(allLogs[k].ops, LAMBDA x : x # "value_loss")
            = C8_Order(config.use_lr_scheduler)
       /\ allLogs[k].pgradUsed
            = ClipGrad(PolicyGradient(action_head, allLogs[k].ptheta, allLogs[k].seen,
                                      allLogs[k].ratios, config.clip_range))
       /\ allLogs[k].vgradUsed
            = ClipGrad(ValueGradient(Value(allLogs[k].vtheta), allLogs[k].seen,
                                     config.clip_range))
  /\ ~config.use_lr_scheduler => (schedArgs = {} /\ policy_lr = 100)

\* a second update of a call with the scheduler on, after a first one that left
\* a gradient behind
C8_Witness ==
  /\ Len(allLogs) >= 2
  /\ config.use_lr_scheduler
  /\ allLogs[1].pgradUsed # 0
  /\ allLogs[2].pgradUsed # allLogs[1].pgradUsed

\* C9: the old statistics of a learn call are fixed before its first update: no
\* update changes the dataset, and every update, in every epoch, saw for its
\* timesteps the values the dataset was built with, computed from the parameters
\* in force at the start of the call
C9_OldStatisticsFrozen ==
  /\ pc \in {"epoch", "batch"} => data = snap.data
  /\ allLogs # <<>> =>
       /\ \A k \in 1 .. Len(allLogs) : allLogs[k].seen = ItemsOf(snap.data, allLogs[k].mb)
       /\ \A i \in 1 .. Len(snap.data) :
            /\ snap.data[i].logprob
                 = LogProb(action_head, snap.ptheta, snap.data[i].action)
            /\ snap.data[i].V = Value(snap.vtheta)

\* in the second epoch, both networks having moved, an update is about to run
C9_Witness ==
  /\ pc = "batch"
  /\ epoch = 1
  /\ allLogs # <<>>
  /\ policy_theta # snap.ptheta
  /\ value_theta # snap.vtheta
  /\ data = snap.data

\* C10: every scheduler step receives the sum of the batch lengths of the learn
\* calls completed before the call it is made in (0 in the first call), never the
\* batch being learned from; the arguments never decrease
C10_SchedulerSeesPrecedingCalls ==
  /\ \A e \in schedArgs : e.arg = e.done
  /\ \A e \in schedArgs : e.arg <= doneSum
  /\ \A e1 \in schedArgs : \A e2 \in schedArgs : e1.done <= e2.done => e1.arg <= e2.arg
  /\ (config.use_lr_scheduler /\ allLogs # <<>>) =>
       [arg |-> IF Completed THEN doneSum - NumSteps(batch) ELSE doneSum,
        done |-> IF Completed THEN doneSum - NumSteps(batch) ELSE doneSum] \in schedArgs

\* scheduler steps made in a second call, after several in the first
C10_Witness ==
  /\ pc = "batch"
  /\ Len(allLogs) >= 2
  /\ \E e \in schedArgs : e.arg = 0
  /\ \E e \in schedArgs : e.arg > 0 /\ e.arg = doneSum

====
